---- MODULE Spec2Model ----
(***************************************************************************)
(* Lifecycle of httpserver.Server: construction (New and its options),     *)
(* AddShutdownHook, Run (background ListenAndServe, the select over the     *)
(* listener result, the interrupt context and the file-change channel) and *)
(* startGracefulShutdown (http.Server.Shutdown, then the shutdown hooks).   *)
(*                                                                         *)
(* The repository holds two revisions of the controller:                   *)
(*   "hooks" : src/httpserver.go lines 91-193 (New(address, port, ...),    *)
(*             signal.NotifyContext inside Run, hooks called with s.ctx)   *)
(*   "modes" : src/unnamed/part_001 (Mode, listenAddress, file watching,   *)
(*             signal.NotifyContext inside New, hooks called with the      *)
(*             timeout context)                                            *)
(* Both are modelled; the variable revision says which one a behaviour     *)
(* runs.  The first revision in src/httpserver.go (lines 1-89) is the      *)
(* "hooks" revision with no hook registered.                               *)
(***************************************************************************)
EXTENDS Integers, Sequences, FiniteSets, TLC

(* ------------------------------ bounds --------------------------------- *)
MaxHooks == 2
MaxInterrupts == 2
MaxInflight == 1
MaxEvents == 2

(* --------------------------- program constants ------------------------- *)
defaultShutdownTimeout == 10

ModeProduction == "production"
ModeDevelopment == "development"

(* ------------------------------ inputs --------------------------------- *)
\* Durations handed to WithShutdownTimeout (seconds); time.Duration is signed.
TimeoutArgs == {-1, 0, 4}
\* Mode values an option may store; Mode is a string type, "staging" is neither constant.
ModeArgs == {ModeProduction, ModeDevelopment, "staging"}
\* Listen addresses an option may store.
ListenArgs == {"", ":3000"}
\* The address argument of New(address, port, ...) in the "hooks" revision.
AddressArgs == {"", "127.0.0.1"}

(* ------------------------------ errors --------------------------------- *)
\* A Go error value.  Nil is the nil error; a leaf is one error; a join is the
\* value errors.Join builds, holding its non-nil arguments in order.
Nil == [kind |-> "nil", id |-> 0, errs |-> <<>>]
Leaf(k, i) == [kind |-> k, id |-> i, errs |-> <<>>]
ErrServerClosed == Leaf("ErrServerClosed", 0)
DeadlineExceeded == Leaf("DeadlineExceeded", 0)
BindErr == Leaf("bind", 0)
AcceptErr == Leaf("accept", 0)
CloseErr == Leaf("close", 0)
HookErr(h) == Leaf("hook", h)

\* Faulty variants of Join: keeping only the first error; not discarding nil.
JoinFirstOnly(a, b) == IF a # Nil THEN a ELSE b
JoinKeepsNil(a, b) == [kind |-> "join", id |-> 0, errs |-> <<a, b>>]
\* errors.Join(a, b): nil arguments are discarded; nil when nothing is left.
Join(a, b) ==
  LET xs == SelectSeq(<<a, b>>, LAMBDA e : e # Nil)
  IN  IF xs = <<>> THEN Nil ELSE [kind |-> "join", id |-> 0, errs |-> xs]

\* errors.Is(e, target): e is target, or e is a join one of whose errors Is target.
RECURSIVE Is(_, _)
Is(e, target) ==
  \/ e = target
  \/ /\ e.kind = "join"
     /\ \E i \in 1..Len(e.errs) : Is(e.errs[i], target)

VARIABLES
  revision,        \* "hooks" or "modes": which revision of the controller runs
  pc,              \* position of the calling goroutine (New, idle, Run, ...)
  shutdownTimeout, \* Server.shutdownTimeout
  listenAddress,   \* Server.listenAddress (HTTPServer.Addr in revision "hooks")
  mode,            \* Server.mode ("" while unset)
  watchEnabled,    \* Server.watchEnabled
  shutdownHooks,   \* Server.shutdownHooks
  optionsApplied,  \* New was given at least one option (history)
  registered,      \* signal.Notify registration of the NotifyContext is active
  ctxDone,         \* s.ctx is cancelled
  lsState,         \* the goroutine running ListenAndServe
  srvErr,          \* the channel srvErr (capacity 1)
  inShutdown,      \* http.Server.inShutdown
  keepAlives,      \* keep-alives enabled on the http.Server
  lnerr,           \* what closing the listeners returned inside Shutdown
  inflight,        \* connections that are not idle
  expired,         \* the timeout context's deadline has passed
  hookIdx,         \* index of the range loop over shutdownHooks
  hookRunning,     \* a hook has been called and has not returned
  err,             \* the err variable of startGracefulShutdown
  result,          \* the value Run returned
  watching,        \* notify.Watch subscription is active
  rootMarker,      \* a go.mod exists in the working directory or above it
  fileChan,        \* the channel fileChangesChan (capacity 1)
  \* ---- history, written by the actions, read only by the properties ----
  interrupts,      \* interrupts delivered to the process
  took,            \* the select case Run took last
  lsReturned,      \* what ListenAndServe returned
  shutdownRet,     \* what HTTPServer.Shutdown returned
  shutdownCalls,   \* calls of HTTPServer.Shutdown
  drainEntries,    \* entries into startGracefulShutdown
  hookCalls,       \* the hook calls made: <<[hook, ctx, ctxCancelled]>>
  hookResults,     \* what each returned hook call returned
  events,          \* file-change events the watcher has emitted
  genRuns,         \* runs of the regeneration command
  lastChange,      \* how the last handleFileChange ended
  sawGo,           \* the select has taken an event for a .go path
  panicAt          \* where the calling goroutine panicked

cfgVars == <<revision, shutdownTimeout, listenAddress, mode, watchEnabled, shutdownHooks,
             optionsApplied>>
sigVars == <<registered, ctxDone>>
lsVars == <<lsState, srvErr, inShutdown, keepAlives, lnerr, inflight>>
drainVars == <<expired, hookIdx, hookRunning, err, result>>
watchVars == <<watching, rootMarker, fileChan>>
runHist == <<took, lsReturned, shutdownRet, shutdownCalls, drainEntries, hookCalls,
             hookResults, events, genRuns, lastChange, sawGo, panicAt>>
vars == <<cfgVars, pc, sigVars, lsVars, drainVars, watchVars, interrupts, runHist>>

(* ---------------------------- construction ----------------------------- *)
\* fmt.Sprintf("%s:%d", address, port) with port 3000, after the "" default.
Sprintf(address) == IF address = "" THEN "0.0.0.0:3000" ELSE address \o ":3000"

Init ==
  /\ revision \in {"hooks", "modes"}
  /\ pc = "new"
  /\ shutdownTimeout = defaultShutdownTimeout
  /\ listenAddress \in IF revision = "hooks" THEN {Sprintf(a) : a \in AddressArgs} ELSE {""}
  /\ mode = ""
  /\ watchEnabled = FALSE
  /\ shutdownHooks = <<>>
  /\ optionsApplied = FALSE
  /\ registered = FALSE
  /\ ctxDone = FALSE
  /\ lsState = "none"
  /\ srvErr = <<>>
  /\ inShutdown = FALSE
  /\ keepAlives = TRUE
  /\ lnerr = Nil
  /\ inflight = 0
  /\ expired = FALSE
  /\ hookIdx = 0
  /\ hookRunning = FALSE
  /\ err = Nil
  /\ result = Nil
  /\ watching = FALSE
  /\ rootMarker = TRUE
  /\ fileChan = <<>>
  /\ interrupts = 0
  /\ took = "none"
  /\ lsReturned = Nil
  /\ shutdownRet = Nil
  /\ shutdownCalls = 0
  /\ drainEntries = 0
  /\ hookCalls = <<>>
  /\ hookResults = <<>>
  /\ events = 0
  /\ genRuns = 0
  /\ lastChange = "none"
  /\ sawGo = FALSE
  /\ panicAt = "none"

\* WithShutdownTimeout(timeout): server.shutdownTimeout = timeout.
WithShutdownTimeout(timeout) ==
  /\ pc = "new"
  /\ shutdownTimeout' = timeout
  /\ optionsApplied' = TRUE
  /\ UNCHANGED <<revision, listenAddress, mode, watchEnabled, shutdownHooks, pc, sigVars,
                 lsVars, drainVars, watchVars, interrupts, runHist>>

\* The mode option (with-mode and its sugar): stores the mode and derives
\* watchEnabled from it.
WithMode(m) ==
  /\ pc = "new"
  /\ revision = "modes"
  /\ mode' = m
  /\ watchEnabled' = (m = ModeDevelopment)
  /\ optionsApplied' = TRUE
  /\ UNCHANGED <<revision, shutdownTimeout, listenAddress, shutdownHooks, pc, sigVars,
                 lsVars, drainVars, watchVars, interrupts, runHist>>

\* The listen-address option: stores the address.
ListenOn(a) ==
  /\ pc = "new"
  /\ revision = "modes"
  /\ listenAddress' = a
  /\ optionsApplied' = TRUE
  /\ UNCHANGED <<revision, shutdownTimeout, mode, watchEnabled, shutdownHooks, pc, sigVars,
                 lsVars, drainVars, watchVars, interrupts, runHist>>

\* New, after the options: if srv.mode != ModeProduction { srv.mode = ModeDevelopment }.
NormalizedMode(m) == IF m # ModeProduction THEN ModeDevelopment ELSE m

\* Faulty variant of DefaultListenAddress: the two defaults exchanged.
SwappedListenAddress(m) == IF m = ModeProduction THEN "localhost:8080" ELSE "0.0.0.0:80"
\* New: the switch that fills an empty listenAddress from the mode.
DefaultListenAddress(m) ==
  CASE m = ModeProduction -> "0.0.0.0:80"
    [] m = ModeDevelopment -> "localhost:8080"
    [] OTHER -> ""

\* New, from the end of the option loop to its return.
New ==
  /\ pc = "new"
  /\ pc' = "idle"
  /\ IF revision = "modes"
     THEN /\ mode' = NormalizedMode(mode)
          /\ listenAddress' = IF listenAddress = "" THEN DefaultListenAddress(mode')
                              ELSE listenAddress
          \* serverCtx, stop := signal.NotifyContext(context.Background(), os.Interrupt)
          /\ registered' = TRUE
          /\ ctxDone' = FALSE
     ELSE UNCHANGED <<mode, listenAddress, registered, ctxDone>>
  /\ UNCHANGED <<revision, shutdownTimeout, watchEnabled, shutdownHooks, optionsApplied,
                 lsVars, drainVars, watchVars, interrupts, runHist>>

\* AddShutdownHook(hook): append.  A hook is named by its place in the registry.
AddShutdownHook ==
  /\ pc = "idle"
  /\ Len(shutdownHooks) < MaxHooks
  /\ shutdownHooks' = Append(shutdownHooks, Len(shutdownHooks) + 1)
  /\ UNCHANGED <<revision, shutdownTimeout, listenAddress, mode, watchEnabled, optionsApplied,
                 pc, sigVars, lsVars, drainVars, watchVars, interrupts, runHist>>

(* ------------------------------ environment ---------------------------- *)
\* Faulty variant of WatchBranch: the watcher branch whatever the mode.
WatchBranchAnyMode == revision = "modes"
\* Whether Run takes the branch with the file watcher (s.mode != ModeProduction).
WatchBranch == revision = "modes" /\ mode # ModeProduction

\* The process exists: it was neither killed by a signal nor crashed by a panic.
Alive == pc \notin {"killed", "panicked"}

\* Faulty variant of AfterStop: stop() leaving the registration as it is.
StopKeepsRegistration == registered
\* stop(), the function signal.NotifyContext returned: signal.Stop, then cancel.
\* The registration is gone after it, and with no registration left the signal
\* has its default disposition again.
AfterStop == FALSE

\* The operating system delivers an interrupt.  With the NotifyContext registered
\* the context is cancelled; without it os.Interrupt has its default disposition
\* and the process exits.
Interrupt ==
  /\ Alive
  /\ pc # "done"
  /\ interrupts < MaxInterrupts
  /\ interrupts' = interrupts + 1
  /\ IF registered
     THEN /\ ctxDone' = TRUE
          /\ UNCHANGED <<pc, registered>>
     ELSE /\ pc' = "killed"
          /\ UNCHANGED <<registered, ctxDone>>
  /\ UNCHANGED <<cfgVars, lsVars, drainVars, watchVars, runHist>>

\* A connection is accepted and its handler starts.
Accept ==
  /\ Alive
  /\ lsState = "listening"
  /\ ~inShutdown
  /\ inflight < MaxInflight
  /\ inflight' = inflight + 1
  /\ UNCHANGED <<cfgVars, pc, sigVars, lsState, srvErr, inShutdown, keepAlives, lnerr,
                 drainVars, watchVars, interrupts, runHist>>

\* A handler returns and its connection becomes idle.
Complete ==
  /\ Alive
  /\ inflight > 0
  /\ inflight' = inflight - 1
  /\ UNCHANGED <<cfgVars, pc, sigVars, lsState, srvErr, inShutdown, keepAlives, lnerr,
                 drainVars, watchVars, interrupts, runHist>>

\* notify delivers an event for a path (a .go file or another file) to the
\* channel; it drops the event when the channel is full.
FileEvent(path) ==
  /\ Alive
  /\ watching
  /\ events < MaxEvents
  /\ Len(fileChan) < 1
  /\ fileChan' = Append(fileChan, path)
  /\ events' = events + 1
  /\ UNCHANGED <<cfgVars, pc, sigVars, lsVars, drainVars, watching, rootMarker,
                 interrupts, took, lsReturned, shutdownRet, shutdownCalls, drainEntries,
                 hookCalls, hookResults, genRuns, lastChange, sawGo, panicAt>>

\* The go.mod that modulePath looks for is removed (or the process's working
\* directory is moved out of the module), at a time when Run still reads it:
\* before watchForFileChanges or between two handleFileChange calls.
RemoveMarker ==
  /\ pc \in {"watch", "select"}
  /\ WatchBranch
  /\ rootMarker
  /\ rootMarker' = FALSE
  /\ UNCHANGED <<cfgVars, pc, sigVars, lsVars, drainVars, watching, fileChan,
                 interrupts, runHist>>

(* ------------------------- the ListenAndServe goroutine ---------------- *)
\* ListenAndServe up to net.Listen: ErrServerClosed when the server is already
\* shutting down, the bind error when net.Listen fails, else it serves.
LsBind ==
  /\ Alive
  /\ lsState = "spawned"
  /\ \/ /\ inShutdown
        /\ lsReturned' = ErrServerClosed
        /\ lsState' = "sending"
     \/ /\ ~inShutdown
        /\ lsReturned' = BindErr
        /\ lsState' = "sending"
     \/ /\ ~inShutdown
        /\ lsState' = "listening"
        /\ UNCHANGED lsReturned
  /\ UNCHANGED <<cfgVars, pc, sigVars, srvErr, inShutdown, keepAlives, lnerr, inflight,
                 drainVars, watchVars, interrupts, took, shutdownRet, shutdownCalls,
                 drainEntries, hookCalls, hookResults, events, genRuns, lastChange, sawGo, panicAt>>

\* Serve returns: ErrServerClosed once Shutdown has closed the listener, or the
\* error of a failed Accept.
LsServeReturn ==
  /\ Alive
  /\ lsState = "listening"
  /\ lsReturned' = IF inShutdown THEN ErrServerClosed ELSE AcceptErr
  /\ lsState' = "sending"
  /\ UNCHANGED <<cfgVars, pc, sigVars, srvErr, inShutdown, keepAlives, lnerr, inflight,
                 drainVars, watchVars, interrupts, took, shutdownRet, shutdownCalls,
                 drainEntries, hookCalls, hookResults, events, genRuns, lastChange, sawGo, panicAt>>

\* Faulty variant of srvErrCap: an unbuffered channel.
srvErrUnbuffered == 1 - 1
\* srvErr := make(chan error, 1): the capacity of the channel.
srvErrCap == 1

\* srvErr <- (the value ListenAndServe returned); the goroutine ends.  The send
\* blocks while the channel is full.
LsSend ==
  /\ Alive
  /\ lsState = "sending"
  /\ Len(srvErr) < srvErrCap
  /\ srvErr' = Append(srvErr, lsReturned)
  /\ lsState' = "exited"
  /\ UNCHANGED <<cfgVars, pc, sigVars, inShutdown, keepAlives, lnerr, inflight, drainVars,
                 watchVars, interrupts, runHist>>

(* --------------------------------- Run --------------------------------- *)
\* Run up to the select: (revision "hooks": signal.NotifyContext;) the goroutine
\* running ListenAndServe is started.
RunStart ==
  /\ pc = "idle"
  /\ IF revision = "hooks"
     THEN registered' = TRUE /\ ctxDone' = FALSE
     ELSE UNCHANGED <<registered, ctxDone>>
  /\ lsState' = "spawned"
  /\ pc' = IF WatchBranch THEN "watch" ELSE "select"
  /\ UNCHANGED <<cfgVars, srvErr, inShutdown, keepAlives, lnerr, inflight, drainVars,
                 watchVars, interrupts, runHist>>

\* modulePath(): the directory holding the nearest go.mod; panics without one.
modulePath == IF rootMarker THEN "found" ELSE "panic"

\* watchForFileChanges: modulePath, then notify.Watch; a failure of either panics.
\* The panic unwinds Run, whose deferred s.stopCtx() runs.
watchForFileChanges ==
  /\ pc = "watch"
  /\ \E watchOk \in BOOLEAN :
       IF modulePath = "found" /\ watchOk
       THEN /\ watching' = TRUE
            /\ pc' = "select"
            /\ UNCHANGED <<registered, ctxDone, panicAt>>
       ELSE /\ pc' = "panicked"
            /\ panicAt' = "watch"
            /\ registered' = AfterStop
            /\ ctxDone' = TRUE
            /\ UNCHANGED watching
  /\ UNCHANGED <<cfgVars, lsVars, drainVars, rootMarker, fileChan, interrupts, took,
                 lsReturned, shutdownRet, shutdownCalls, drainEntries, hookCalls, hookResults,
                 events, genRuns, lastChange, sawGo>>

\* Faulty variant of SelectSrvErr: the error is dropped and Run goes on to drain.
SelectSrvErrThenDrain ==
  /\ pc = "select"
  /\ srvErr # <<>>
  /\ took' = "srvErr"
  /\ srvErr' = Tail(srvErr)
  /\ registered' = FALSE
  /\ pc' = "drain"
  /\ UNCHANGED <<cfgVars, ctxDone, lsState, inShutdown, keepAlives, lnerr, inflight, drainVars,
                 watchVars, interrupts, lsReturned, shutdownRet, shutdownCalls, drainEntries,
                 hookCalls, hookResults, events, genRuns, lastChange, sawGo, panicAt>>
\* case err := <-srvErr: return err (the deferred stopCtx and notify.Stop run).
SelectSrvErr ==
  /\ pc = "select"
  /\ srvErr # <<>>
  /\ took' = "srvErr"
  /\ result' = Head(srvErr)
  /\ srvErr' = Tail(srvErr)
  /\ pc' = "done"
  /\ registered' = AfterStop
  /\ ctxDone' = TRUE
  /\ watching' = FALSE
  /\ UNCHANGED <<cfgVars, lsState, inShutdown, keepAlives, lnerr, inflight, expired, hookIdx,
                 hookRunning, err, rootMarker, fileChan, interrupts, lsReturned,
                 shutdownRet, shutdownCalls, drainEntries, hookCalls, hookResults, events,
                 genRuns, lastChange, sawGo, panicAt>>

\* Faulty variant of SelectCtxDone: a break that leaves the select, not the loop.
SelectCtxDoneStaysInLoop ==
  /\ pc = "select"
  /\ ctxDone
  /\ took' = "ctxDone"
  /\ registered' = FALSE
  /\ pc' = IF WatchBranch THEN "select" ELSE "drain"
  /\ UNCHANGED <<cfgVars, ctxDone, lsVars, drainVars, watchVars, interrupts,
                 lsReturned, shutdownRet, shutdownCalls, drainEntries, hookCalls, hookResults,
                 events, genRuns, lastChange, sawGo, panicAt>>
\* case <-s.ctx.Done(): s.stopCtx(), leave the select for startGracefulShutdown.
SelectCtxDone ==
  /\ pc = "select"
  /\ ctxDone
  /\ took' = "ctxDone"
  /\ registered' = AfterStop
  /\ pc' = "drain"
  /\ UNCHANGED <<cfgVars, ctxDone, lsVars, drainVars, watchVars, interrupts,
                 lsReturned, shutdownRet, shutdownCalls, drainEntries, hookCalls, hookResults,
                 events, genRuns, lastChange, sawGo, panicAt>>

\* handleFileChange(event) up to genCmd.Run(): how it goes on.  "disabled":
\* !s.watchEnabled, return; "irrelevant": not a .go path, return; "panic":
\* modulePath panics; "generate": go generate is started.
handleFileChange(path) ==
  IF ~watchEnabled THEN {"disabled"}
  ELSE IF path # "go" THEN {"irrelevant"}
  ELSE IF modulePath = "panic" THEN {"panic"}
  ELSE {"generate"}

\* Faulty variant of LoopAfterFileChange: a failed go generate ends serving.
AbortOnGenerateFailure(outcome) == IF outcome = "failed" THEN "drain" ELSE "select"
\* Where Run continues after handleFileChange returned: the for loop's select.
LoopAfterFileChange(outcome) == "select"

\* case changeEvent := <-fileChangesChan: s.handleFileChange(changeEvent), up to
\* its return or to the start of go generate, which it waits for.
SelectFileChange ==
  /\ pc = "select"
  /\ WatchBranch
  /\ fileChan # <<>>
  /\ took' = "fileChange"
  /\ fileChan' = Tail(fileChan)
  /\ sawGo' = (sawGo \/ Head(fileChan) = "go")
  /\ \E outcome \in handleFileChange(Head(fileChan)) :
       CASE outcome = "panic" ->
              /\ pc' = "panicked"
              /\ panicAt' = "handleFileChange"
              /\ lastChange' = outcome
              /\ registered' = AfterStop
              /\ ctxDone' = TRUE
              /\ watching' = FALSE
              /\ UNCHANGED genRuns
         [] outcome = "generate" ->
              /\ pc' = "generate"
              /\ genRuns' = genRuns + 1
              /\ UNCHANGED <<lastChange, registered, ctxDone, watching, panicAt>>
         [] OTHER ->
              /\ pc' = LoopAfterFileChange(outcome)
              /\ lastChange' = outcome
              /\ UNCHANGED <<genRuns, registered, ctxDone, watching, panicAt>>
  /\ UNCHANGED <<cfgVars, lsVars, drainVars, rootMarker, interrupts, lsReturned,
                 shutdownRet, shutdownCalls, drainEntries, hookCalls, hookResults, events>>

\* genCmd.Run() returns with the exit status of go generate; a failure is
\* logged; handleFileChange returns.
GenerateExit ==
  /\ pc = "generate"
  /\ \E outcome \in {"ok", "failed"} :
       /\ lastChange' = outcome
       /\ pc' = LoopAfterFileChange(outcome)
  /\ UNCHANGED <<cfgVars, sigVars, lsVars, drainVars, watchVars, interrupts, took, lsReturned,
                 shutdownRet, shutdownCalls, drainEntries, hookCalls, hookResults, events,
                 genRuns, sawGo, panicAt>>

(* ------------------------- startGracefulShutdown ----------------------- *)
\* context.WithTimeout(context.Background(), d): the deadline has passed at once
\* when d <= 0.
WithTimeout(d) == d <= 0

\* startGracefulShutdown up to the call of Shutdown: the timeout context is
\* made and keep-alives are disabled.
startGracefulShutdown ==
  /\ pc = "drain"
  /\ drainEntries' = drainEntries + 1
  /\ expired' = WithTimeout(shutdownTimeout)
  /\ keepAlives' = FALSE
  /\ pc' = "shutdownCall"
  /\ UNCHANGED <<cfgVars, sigVars, lsState, srvErr, inShutdown, lnerr, inflight, hookIdx,
                 hookRunning, err, result, watchVars, interrupts, took, lsReturned,
                 shutdownRet, shutdownCalls, hookCalls, hookResults, events, genRuns,
                 lastChange, sawGo, panicAt>>

\* Time passes and the timeout context's deadline is reached.
DeadlineExpires ==
  /\ pc \in {"shutdownCall", "shutdownWait", "hooks"}
  /\ ~expired
  /\ expired' = TRUE
  /\ UNCHANGED <<cfgVars, pc, sigVars, lsVars, hookIdx, hookRunning, err, result, watchVars, interrupts, runHist>>

\* HTTPServer.Shutdown(timeoutContext), its start: inShutdown is set and the
\* listeners are closed (closing an open listener may fail).
ShutdownCall ==
  /\ pc = "shutdownCall"
  /\ inShutdown' = TRUE
  /\ shutdownCalls' = shutdownCalls + 1
  /\ lnerr' \in IF lsState = "listening" THEN {Nil, CloseErr} ELSE {Nil}
  /\ pc' = "shutdownWait"
  /\ UNCHANGED <<cfgVars, sigVars, lsState, srvErr, keepAlives, inflight, drainVars, watchVars, interrupts, took, lsReturned, shutdownRet, drainEntries, hookCalls,
                 hookResults, events, genRuns, lastChange, sawGo, panicAt>>

\* Shutdown's polling loop: what it can return now.  It returns the listeners'
\* close error once no connection is active, and ctx.Err() when connections are
\* still active and the context is done.
ShutdownResult ==
  IF inflight = 0 THEN {lnerr}
  ELSE IF expired THEN {DeadlineExceeded}
  ELSE {}

\* What startGracefulShutdown does with Shutdown's error: a non-nil one is
\* returned at once, before the hook loop.
RunsHooks(e) == e = Nil

\* Shutdown returns; startGracefulShutdown returns its error or enters the loop
\* over the hooks.  On return Run's deferred calls run.
ShutdownReturn ==
  /\ pc = "shutdownWait"
  /\ \E e \in ShutdownResult :
       /\ shutdownRet' = e
       /\ IF RunsHooks(e)
          THEN /\ pc' = "hooks"
               /\ hookIdx' = 1
               /\ err' = Nil
               /\ UNCHANGED <<result, watching>>
          ELSE /\ pc' = "done"
               /\ result' = e
               /\ watching' = FALSE
               /\ UNCHANGED <<hookIdx, err>>
  /\ UNCHANGED <<cfgVars, sigVars, lsVars, expired, hookRunning, rootMarker, fileChan,
                 interrupts, took, lsReturned, shutdownCalls, drainEntries, hookCalls,
                 hookResults, events, genRuns, lastChange, sawGo, panicAt>>

\* The context the hook loop hands to each hook.
HookContext == IF revision = "modes" THEN "timeoutContext" ELSE "s.ctx"

\* Whether that context is already done when the hook is called.
HookContextDone == IF HookContext = "s.ctx" THEN ctxDone ELSE expired

\* Faulty variant of HookCall: the registry walked from its end.
HookCallReversed ==
  /\ pc = "hooks"
  /\ ~hookRunning
  /\ hookIdx <= Len(shutdownHooks)
  /\ hookRunning' = TRUE
  /\ hookCalls' = Append(hookCalls,
                         [hook |-> shutdownHooks[Len(shutdownHooks) + 1 - hookIdx],
                          ctx |-> "timeoutContext", done |-> expired])
  /\ UNCHANGED <<cfgVars, pc, sigVars, lsVars, expired, hookIdx, err, result, watchVars,
                 interrupts, took, lsReturned, shutdownRet, shutdownCalls,
                 drainEntries, hookResults, events, genRuns, lastChange, sawGo, panicAt>>
\* The loop calls the next hook.
HookCall ==
  /\ pc = "hooks"
  /\ ~hookRunning
  /\ hookIdx <= Len(shutdownHooks)
  /\ hookRunning' = TRUE
  /\ hookCalls' = Append(hookCalls, [hook |-> shutdownHooks[hookIdx], ctx |-> HookContext,
                                     done |-> HookContextDone])
  /\ UNCHANGED <<cfgVars, pc, sigVars, lsVars, expired, hookIdx, err, result, watchVars, interrupts, took, lsReturned, shutdownRet, shutdownCalls,
                 drainEntries, hookResults, events, genRuns, lastChange, sawGo, panicAt>>

\* The hook returns nil or its error: err = errors.Join(err, hook(ctx)).
HookReturn ==
  /\ pc = "hooks"
  /\ hookRunning
  /\ \E r \in {Nil, HookErr(shutdownHooks[hookIdx])} :
       /\ err' = Join(err, r)
       /\ hookResults' = Append(hookResults, r)
  /\ hookRunning' = FALSE
  /\ hookIdx' = hookIdx + 1
  /\ UNCHANGED <<cfgVars, pc, sigVars, lsVars, expired, result, watchVars, interrupts,
                 took, lsReturned, shutdownRet, shutdownCalls, drainEntries, hookCalls, events,
                 genRuns, lastChange, sawGo, panicAt>>

\* The loop is over: return err; Run returns it and its deferred calls run.
HooksReturn ==
  /\ pc = "hooks"
  /\ ~hookRunning
  /\ hookIdx > Len(shutdownHooks)
  /\ result' = err
  /\ pc' = "done"
  /\ watching' = FALSE
  /\ UNCHANGED <<cfgVars, sigVars, lsVars, expired, hookIdx, hookRunning, err, rootMarker,
                 fileChan, interrupts, runHist>>

(* ---------------------------- specification ---------------------------- *)
Next ==
  \/ \E t \in TimeoutArgs : WithShutdownTimeout(t)
  \/ \E m \in ModeArgs : WithMode(m)
  \/ \E a \in ListenArgs : ListenOn(a)
  \/ New
  \/ AddShutdownHook
  \/ Interrupt
  \/ Accept
  \/ Complete
  \/ \E p \in {"go", "other"} : FileEvent(p)
  \/ RemoveMarker
  \/ LsBind
  \/ LsServeReturn
  \/ LsSend
  \/ RunStart
  \/ watchForFileChanges
  \/ SelectSrvErr
  \/ SelectCtxDone
  \/ SelectFileChange
  \/ GenerateExit
  \/ startGracefulShutdown
  \/ DeadlineExpires
  \/ ShutdownCall
  \/ ShutdownReturn
  \/ HookCall
  \/ HookReturn
  \/ HooksReturn

Spec == Init /\ [][Next]_vars

\* The steps of the goroutine Run calls from: the runtime schedules it whenever
\* it can run.  Starting go generate is one of them; its exit is not.
RunSteps ==
  \/ watchForFileChanges
  \/ SelectSrvErr
  \/ SelectCtxDone
  \/ SelectFileChange
  \/ startGracefulShutdown
  \/ ShutdownCall
  \/ HookCall
  \/ HooksReturn

\* The steps of the goroutine around ListenAndServe.
ServeSteps == LsBind \/ LsServeReturn \/ LsSend

\* Spec with the scheduling of the two goroutines, the passing of time, and
\* the two assumptions made of the callees: Shutdown returns once it can
\* (no connection left, or its context done) and a hook that was called returns.
LiveSpec ==
  /\ Spec
  /\ WF_vars(RunSteps)
  /\ WF_vars(ServeSteps)
  /\ WF_vars(DeadlineExpires)
  /\ WF_vars(ShutdownReturn)
  /\ WF_vars(HookReturn)

(* ------------------------------ properties ----------------------------- *)
\* The positions of Run inside the drain: from the interrupt being observed to
\* the return of startGracefulShutdown.
DrainPcs == {"drain", "shutdownCall", "shutdownWait", "hooks"}

\* Run returned through startGracefulShutdown.
Drained == pc = "done" /\ took = "ctxDone"

\* C1: when Shutdown ends on the deadline, Run's result reflects the timeout
\* and every registered hook has been invoked before Run returns.
C1_TimeoutStillRunsHooks ==
  (Drained /\ shutdownRet = DeadlineExceeded)
    => /\ Is(result, DeadlineExceeded)
       /\ Len(hookCalls) = Len(shutdownHooks)

\* C2: once the hook loop is entered every hook is invoked, in the registry's
\* order, whatever the earlier hooks returned, and the value Run returns
\* contains the error of every hook that failed.
C2_AllHookErrorsReturned ==
  /\ pc = "hooks" =>
       /\ Len(hookResults) = hookIdx - 1
       /\ Len(hookCalls) = hookIdx - (IF hookRunning THEN 0 ELSE 1)
  /\ (Drained /\ shutdownRet = Nil) =>
       /\ Len(hookCalls) = Len(shutdownHooks)
       /\ Len(hookResults) = Len(shutdownHooks)
       /\ \A i \in 1..Len(shutdownHooks) :
            /\ hookCalls[i].hook = shutdownHooks[i]
            /\ hookResults[i] # Nil => Is(result, hookResults[i])

C2_Witness ==
  /\ Drained
  /\ Len(hookResults) = 2
  /\ hookResults[1] = HookErr(1)
  /\ hookResults[2] = HookErr(2)
  /\ Is(result, HookErr(1))
  /\ Is(result, HookErr(2))

\* C3: when the select takes the listener's result, Run returns exactly that
\* error, goes from the select straight to its return, never calls Shutdown and
\* invokes no hook.
C3_ListenerErrorReturnedDirectly ==
  /\ []((pc = "done" /\ took = "srvErr") =>
          /\ result = lsReturned
          /\ result # Nil
          /\ ~inShutdown
          /\ shutdownCalls = 0
          /\ drainEntries = 0
          /\ hookCalls = <<>>)
  /\ [][(pc = "select" /\ took' = "srvErr") =>
          (pc' = "done" /\ result' = Head(srvErr))]_vars

C3_Witness ==
  /\ pc = "done"
  /\ took = "srvErr"
  /\ result = BindErr
  /\ Len(shutdownHooks) = 2

\* C4 (as claimed): an interrupt delivered while Run is draining or running the
\* hooks has no effect: the drain goes on and Run still returns.
C4_SecondInterruptNoEffect ==
  [][(interrupts' = interrupts + 1 /\ pc \in DrainPcs) => pc' = pc]_vars

\* C4 (amended): the drain is entered at most once, no hook is invoked twice and
\* a Run that returns gives the result of that one drain; but an interrupt
\* delivered during the drain is no longer captured (stop() was called), it
\* takes its default disposition and the process exits, wherever the drain is.
C4_SecondInterruptKillsNoReentry ==
  /\ [](/\ drainEntries <= 1
        /\ shutdownCalls <= 1
        /\ Len(hookCalls) <= Len(shutdownHooks)
        /\ pc \in DrainPcs => ~registered
        /\ Drained => result = IF shutdownRet # Nil THEN shutdownRet ELSE err)
  /\ [][(interrupts' = interrupts + 1 /\ pc \in DrainPcs) =>
          (pc' = "killed" /\ UNCHANGED <<drainEntries, shutdownCalls, hookCalls, result>>)]_vars

C4_Witness ==
  /\ pc = "killed"
  /\ interrupts = 2
  /\ drainEntries = 1
  /\ Len(hookCalls) = 1
  /\ Len(shutdownHooks) = 2

\* C5: with a positive shutdown timeout, one interrupt, a Shutdown that returns
\* nil and hooks that all return nil, Run returns nil.
C5_CleanDrainReturnsNil ==
  (/\ Drained
   /\ shutdownTimeout > 0
   /\ interrupts = 1
   /\ shutdownRet = Nil
   /\ \A i \in 1..Len(hookResults) : hookResults[i] = Nil)
    => result = Nil

C5_Witness ==
  /\ Drained
  /\ shutdownTimeout > 0
  /\ interrupts = 1
  /\ shutdownRet = Nil
  /\ Len(shutdownHooks) = 2
  /\ hookResults = <<Nil, Nil>>
  /\ result = Nil

\* C6: every hook is called with the timeout context made at the entry of
\* startGracefulShutdown, never with the run-scoped context s.ctx.
C6_HooksGetDeadlineContext ==
  \A i \in 1..Len(hookCalls) : hookCalls[i].ctx = "timeoutContext"

\* C7: New leaves a listen address set by an option unchanged, fills an unset
\* one with "0.0.0.0:80" when the options left the mode at Production and with
\* "localhost:8080" otherwise, so the address is not empty once New returned,
\* and nothing changes it afterwards.
C7_DefaultListenAddress ==
  /\ [][(revision = "modes" /\ pc = "new" /\ pc' = "idle") =>
          /\ listenAddress # "" => listenAddress' = listenAddress
          /\ listenAddress = "" =>
               listenAddress' = IF mode = ModeProduction THEN "0.0.0.0:80"
                                ELSE "localhost:8080"]_vars
  /\ [][pc # "new" => listenAddress' = listenAddress]_vars
  /\ []((revision = "modes" /\ pc \notin {"new", "killed"}) => listenAddress # "")

C7_Witness ==
  /\ revision = "modes"
  /\ pc = "select"
  /\ mode = ModeProduction
  /\ listenAddress = "0.0.0.0:80"

\* C8: once New has returned, shutdownTimeout is strictly positive.
C8_ShutdownTimeoutPositive ==
  pc \notin {"new", "killed"} => shutdownTimeout > 0

\* C9: when the watch setup fails, the goroutine running ListenAndServe has not
\* been started.
C9_WatchFailureBeforeServing ==
  panicAt = "watch" => lsState = "none"

\* C10: a handleFileChange that ends because watching is disabled, the path is
\* irrelevant, or go generate succeeded or failed, leaves Run in its select: no
\* drain, no Shutdown, no hook, no return; and the error of go generate is never
\* part of what Run returns.
GenerateErr == Leaf("generate", 0)

C10_FileChangeStaysServing ==
  /\ [][(\/ /\ pc = "select"
            /\ Len(fileChan') < Len(fileChan)
            /\ pc' # "panicked"
         \/ /\ pc = "generate"
            /\ lastChange' \in {"ok", "failed"}
            /\ pc' # "generate") =>
          (/\ pc' \in {"select", "generate"}
           /\ UNCHANGED <<result, drainEntries, shutdownCalls, inShutdown, hookCalls,
                          registered, ctxDone, watching>>)]_vars
  /\ [](pc = "generate" => (lsState # "none" /\ drainEntries = 0 /\ hookCalls = <<>>))
  /\ [](~Is(result, GenerateErr))

C10_Witness ==
  /\ pc = "select"
  /\ lastChange = "failed"
  /\ took = "fileChange"
  /\ genRuns = 2

\* C11 (as claimed): in a Development controller built with no option, once a
\* burst that held a .go event has settled (every event emitted and taken, no
\* interrupt, no listener failure), go generate has been attempted.
C11_BurstRegenerates ==
  (/\ revision = "modes"
   /\ ~optionsApplied
   /\ pc = "select"
   /\ interrupts = 0
   /\ lsReturned = Nil
   /\ events = MaxEvents
   /\ fileChan = <<>>
   /\ sawGo)
    => genRuns >= 1

\* C12 (as claimed): when Run returns nil, ListenAndServe ended with nothing
\* but ErrServerClosed, Shutdown returned nil and every hook returned nil.
C12_NilMeansCleanClose ==
  (pc = "done" /\ result = Nil)
    => /\ lsReturned \in {Nil, ErrServerClosed}
       /\ shutdownRet = Nil
       /\ Len(hookResults) = Len(shutdownHooks)
       /\ \A i \in 1..Len(hookResults) : hookResults[i] = Nil

\* C13: hooks are called one at a time, in the order they were registered:
\* the calls made are a prefix of the registry (the i-th call is the i-th hook
\* registered, so none is called twice), at most one call has not returned,
\* and a call is made only when every earlier call has returned.
C13_HooksSequentialInOrder ==
  /\ [](/\ Len(hookCalls) <= Len(shutdownHooks)
        /\ \A i \in 1..Len(hookCalls) :
             hookCalls[i].hook = i /\ shutdownHooks[i] = i
        /\ Len(hookCalls) - Len(hookResults) = IF hookRunning THEN 1 ELSE 0)
  /\ [][Len(hookCalls') # Len(hookCalls) =>
          /\ Len(hookCalls') = Len(hookCalls) + 1
          /\ Len(hookResults) = Len(hookCalls)
          /\ ~hookRunning]_vars

C13_Witness ==
  /\ pc = "hooks"
  /\ hookRunning
  /\ Len(shutdownHooks) = 2
  /\ Len(hookCalls) = 2
  /\ hookCalls[1].hook = 1
  /\ hookCalls[2].hook = 2
  /\ hookResults = <<HookErr(1)>>

\* The state of the controller's state machine at a position of Run.
Phase ==
  CASE pc \in {"new", "idle"} -> "Idle"
    [] pc \in {"watch", "select", "generate"} -> "Serving"
    [] pc \in {"drain", "shutdownCall", "shutdownWait"} -> "Draining"
    [] pc = "hooks" -> "HooksRunning"
    [] pc = "done" -> "Terminated"
    [] OTHER -> "Dead"

\* The edges of the state machine; a process that dies leaves it from anywhere.
PhaseEdges ==
  {<<"Idle", "Serving">>, <<"Serving", "Draining">>, <<"Draining", "HooksRunning">>,
   <<"HooksRunning", "Terminated">>, <<"Serving", "Terminated">>}

\* C14 (as claimed): in the drain the registration is stopped first, then
\* keep-alives are disabled, then Shutdown is called, and no hook is called
\* before Shutdown has returned; the controller moves only along Serving,
\* Draining, HooksRunning, Terminated (or from Serving straight to Terminated).
C14_DrainOrdered ==
  /\ [](/\ Phase \in {"Draining", "HooksRunning"} => ~registered
        /\ inShutdown => ~keepAlives
        /\ ~keepAlives => ~registered
        /\ hookCalls # <<>> => (inShutdown /\ pc \in {"hooks", "done", "killed"}))
  /\ [][Phase' # Phase => (Phase' = "Dead" \/ <<Phase, Phase'>> \in PhaseEdges)]_vars

\* C15: once the interrupt has been observed (the registration is stopped), the
\* select is never entered again: no event is taken from the channel and go
\* generate is not started, also with events pending or arriving.
C15_NoFileChangeAfterInterrupt ==
  /\ [][(revision = "modes" /\ pc # "new" /\ ~registered) =>
          /\ genRuns' = genRuns
          /\ lastChange' = lastChange
          /\ Len(fileChan') >= Len(fileChan)]_vars
  /\ []((took = "ctxDone" /\ Alive) => pc \in DrainPcs \cup {"done"})

C15_Witness ==
  /\ revision = "modes"
  /\ pc = "hooks"
  /\ watchEnabled
  /\ watching
  /\ genRuns = 0
  /\ fileChan = <<"go">>

C17_IdleNotRegistered ==
  pc = "idle" => (~registered /\ ~ctxDone)

\* C18 (as claimed): when Shutdown returns once it can and every hook called
\* returns, and a single interrupt is delivered, to a serving controller, then
\* Run returns.
C18_RunReturnsAfterInterrupt ==
  ([](interrupts <= 1) /\ [](Phase = "Idle" => ~ctxDone))
    => ((Phase = "Serving" /\ ctxDone) ~> pc = "done")

\* C19: the goroutine sends once on srvErr and its send is never blocked: when
\* it is about to send the channel has room, also after Run has left; a value
\* Run did not receive stays in the channel.
C19_SendNeverBlocks ==
  /\ lsState = "sending" => Len(srvErr) < srvErrCap
  /\ Len(srvErr) <= 1
  /\ lsState # "exited" => srvErr = <<>>
  /\ (lsState = "exited" /\ took # "srvErr") => srvErr = <<lsReturned>>

C19_Witness ==
  /\ Drained
  /\ lsState = "exited"
  /\ srvErr = <<ErrServerClosed>>

\* C20: when Run has returned, by the listener's error or by the drain, the
\* registration with the interrupt source is stopped and s.ctx is cancelled.
C20_UnregisteredOnReturn ==
  /\ pc = "done" => (~registered /\ ctxDone)
  /\ pc \in DrainPcs => (~registered /\ ctxDone)

C20_Witness ==
  /\ pc = "done"
  /\ took = "srvErr"
  /\ ~registered

====
